---- MODULE Spec2Model ----
(***************************************************************************)
(* A model of mdict.py (class Mdict): the decoding of an MDX container     *)
(* from its header to the list of keys.                                    *)
(*                                                                         *)
(* Bytes are naturals below 256 and byte strings are sequences of them.    *)
(* Python exceptions are modelled by pc = "error" with the exception's     *)
(* name in error; an assert statement raises AssertionError.               *)
(*                                                                         *)
(* Four specifications share the variables, one per stage of the decode:   *)
(*   SpecHeader  __init__, _read_mdx_header and _read_mdx_keys up to the   *)
(*               encryption check;                                         *)
(*   SpecKeys    _read_mdx_keys on an unencrypted file, with               *)
(*               _decode_key_block_info and _decode_key_block;             *)
(*   SpecBlocks  _decode_key_block alone, on arbitrary arguments;          *)
(*   SpecSplit   _split_key_block alone, statement by statement.           *)
(***************************************************************************)
EXTENDS Integers, Sequences, FiniteSets, TLC

VARIABLES
    pc,                   \* position in the code
    error,                \* name of the exception raised, "" when none
    input,                \* the structured description the input bytes were built from
    mdx,                  \* the file: [header_bytes_size, tags, body]
    tell,                 \* mdict_file.tell(): the file position
    _tag_dict,            \* self._tag_dict
    _stylesheet,          \* self._stylesheet
    _encoding,            \* self._encoding
    _encrypted,           \* self._encrypted
    _version,             \* self._version, in tenths (1.2 is 12)
    _number_width,        \* self._number_width
    _key_block_offset,    \* self._key_block_offset
    block,                \* _read_mdx_keys: block
    number_of_key_blocks, \* _read_mdx_keys: number_of_key_blocks
    _number_of_entries,   \* self._number_of_entries
    key_block_info_compressed_size, \* _read_mdx_keys: key_block_info_compressed_size
    key_block_size,       \* _read_mdx_keys: key_block_size
    key_block_info_list,  \* _read_mdx_keys: key_block_info_list
    key_block_compressed, \* _decode_key_block: key_block_compressed
    key_list,             \* _decode_key_block: key_list
    key_offset,           \* _decode_key_block: key_offset
    block_index,          \* _decode_key_block: the pairs the for loop has taken
    key_block,            \* _decode_key_block / _split_key_block: key_block
    key_start_index,      \* _split_key_block: key_start_index
    key_id,               \* _split_key_block: key_id
    i,                    \* _split_key_block: i
    key_end_index,        \* _split_key_block: key_end_index
    split_list            \* _split_key_block: key_list

fileVars   == <<mdx, tell>>
headerVars == <<_tag_dict, _stylesheet, _encoding, _encrypted, _version,
                _number_width, _key_block_offset>>
keysVars   == <<block, number_of_key_blocks, _number_of_entries,
                key_block_info_compressed_size, key_block_size, key_block_info_list>>
blockVars  == <<key_block_compressed, key_list, key_offset, block_index, key_block>>
splitVars  == <<key_start_index, key_id, i, key_end_index, split_list>>
vars == <<pc, error, input, fileVars, headerVars, keysVars, blockVars, splitVars>>

-----------------------------------------------------------------------------
(* Byte strings and the library functions the code calls.                  *)

Min(a, b) == IF a < b THEN a ELSE b

\* Python's s[a:b] for 0 <= a, with both ends clipped to the string.
Slice(s, a, b) == SubSeq(s, a + 1, Min(b, Len(s)))

\* Python's s[a:].
SliceFrom(s, a) == SubSeq(s, a + 1, Len(s))

RECURSIVE BigEndian(_)
BigEndian(bytes) ==
    IF bytes = <<>> THEN 0
    ELSE 256 * BigEndian(SubSeq(bytes, 1, Len(bytes) - 1)) + bytes[Len(bytes)]

\* struct.unpack('>I' | '>Q' | '>H' | '>B', bytes)[0]; the caller checks the
\* length, a string of another length raises struct.error.
Unpack(bytes) == BigEndian(bytes)

RECURSIVE Concat(_)
Concat(seqs) == IF seqs = <<>> THEN <<>> ELSE Head(seqs) \o Concat(Tail(seqs))

-----------------------------------------------------------------------------
(* bytes.decode(encoding, errors='ignore').encode('utf-8').strip()         *)

\* The code points of bytes.decode('UTF-8', errors='ignore'), for strings of
\* ASCII bytes and of bytes that no UTF-8 sequence holds (0xF8..0xFF): the
\* former decode to themselves, the latter are dropped.
DecodeUtf8Ignore(bytes) == SelectSeq(bytes, LAMBDA b : b < 128)

\* The 16-bit units of a UTF-16 byte string; an odd last byte is truncated
\* data, which errors='ignore' drops.
RECURSIVE Utf16Units(_, _)
Utf16Units(bytes, bigEndian) ==
    IF Len(bytes) < 2 THEN <<>>
    ELSE <<IF bigEndian THEN 256 * bytes[1] + bytes[2]
                        ELSE bytes[1] + 256 * bytes[2]>>
         \o Utf16Units(SliceFrom(bytes, 2), bigEndian)

IsHighSurrogate(u) == u >= 55296 /\ u <= 56319
IsLowSurrogate(u)  == u >= 56320 /\ u <= 57343

\* The code points of a unit sequence: a surrogate pair is one code point, a
\* surrogate outside a pair is an error, which errors='ignore' drops.
RECURSIVE Utf16CodePoints(_)
Utf16CodePoints(units) ==
    IF units = <<>> THEN <<>>
    ELSE IF IsHighSurrogate(units[1])
         THEN IF Len(units) >= 2 /\ IsLowSurrogate(units[2])
              THEN <<65536 + 1024 * (units[1] - 55296) + (units[2] - 56320)>>
                   \o Utf16CodePoints(SliceFrom(units, 2))
              ELSE Utf16CodePoints(Tail(units))
         ELSE IF IsLowSurrogate(units[1])
              THEN Utf16CodePoints(Tail(units))
              ELSE <<units[1]>> \o Utf16CodePoints(Tail(units))

\* bytes.decode('UTF-16', errors='ignore'): a byte-order mark chooses the
\* byte order and is not part of the text; without one the order is the
\* host's, little-endian.
DecodeUtf16Ignore(bytes) ==
    IF Slice(bytes, 0, 2) = <<255, 254>>
    THEN Utf16CodePoints(Utf16Units(SliceFrom(bytes, 2), FALSE))
    ELSE IF Slice(bytes, 0, 2) = <<254, 255>>
         THEN Utf16CodePoints(Utf16Units(SliceFrom(bytes, 2), TRUE))
         ELSE Utf16CodePoints(Utf16Units(bytes, FALSE))

Decode(bytes, encoding) ==
    IF encoding = "UTF-16" THEN DecodeUtf16Ignore(bytes) ELSE DecodeUtf8Ignore(bytes)

\* The UTF-8 bytes of one code point.
Utf8Bytes(cp) ==
    IF cp < 128 THEN <<cp>>
    ELSE IF cp < 2048 THEN <<192 + (cp \div 64), 128 + (cp % 64)>>
    ELSE IF cp < 65536
         THEN <<224 + (cp \div 4096), 128 + ((cp \div 64) % 64), 128 + (cp % 64)>>
         ELSE <<240 + (cp \div 262144), 128 + ((cp \div 4096) % 64),
                128 + ((cp \div 64) % 64), 128 + (cp % 64)>>

RECURSIVE EncodeUtf8(_)
EncodeUtf8(cps) ==
    IF cps = <<>> THEN <<>> ELSE Utf8Bytes(Head(cps)) \o EncodeUtf8(Tail(cps))

\* The bytes that bytes.strip() removes from both ends.
Whitespace == {9, 10, 11, 12, 13, 32}

RECURSIVE LStrip(_)
LStrip(bytes) ==
    IF bytes # <<>> /\ Head(bytes) \in Whitespace THEN LStrip(Tail(bytes)) ELSE bytes

RECURSIVE RStrip(_)
RStrip(bytes) ==
    IF bytes # <<>> /\ bytes[Len(bytes)] \in Whitespace
    THEN RStrip(SubSeq(bytes, 1, Len(bytes) - 1))
    ELSE bytes

Strip(bytes) == RStrip(LStrip(bytes))

\* key_text of _split_key_block, from the raw bytes between id and delimiter.
KeyText(raw, encoding) == Strip(EncodeUtf8(Decode(raw, encoding)))

\* The delimiter and its width, by the encoding.
Delimiter(encoding) == IF encoding = "UTF-16" THEN <<0, 0>> ELSE <<0>>
Width(encoding)     == IF encoding = "UTF-16" THEN 2 ELSE 1

-----------------------------------------------------------------------------
(* _split_key_block as a function: what a call returns, raises or does.    *)

\* The inner while loop: the index of the first delimiter found scanning
\* from j in steps of the delimiter's width, 0 (key_end_index as initialised)
\* when the scan reaches the end of the block.
RECURSIVE FindDelimiter(_, _, _)
FindDelimiter(kb, j, encoding) ==
    IF j >= Len(kb) THEN 0
    ELSE IF Slice(kb, j, j + Width(encoding)) = Delimiter(encoding) THEN j
    ELSE FindDelimiter(kb, j + Width(encoding), encoding)

\* Mutant of ScanStart: the scan starts at the id field.
ScanStartAtId(start, number_width) == start

\* Where the scan for the delimiter starts: just past the id field.
ScanStart(start, number_width) == start + number_width

\* The outer while loop from key_start_index = start with key_list = acc.
\* status "ok": the call returns list; "struct.error": unpack raises on an id
\* field cut short by the end of the block; "hang": a scan found no
\* delimiter, key_start_index is left as it was and the loop runs again from
\* the same state, for ever.
RECURSIVE SplitFrom(_, _, _, _, _)
SplitFrom(kb, start, number_width, encoding, acc) ==
    IF start >= Len(kb) THEN [status |-> "ok", list |-> acc]
    ELSE LET temp == Slice(kb, start, start + number_width)
             end  == FindDelimiter(kb, ScanStart(start, number_width), encoding)
         IN  IF Len(temp) # number_width
             THEN [status |-> "struct.error", list |-> acc]
             ELSE IF end = 0
                  THEN [status |-> "hang", list |-> acc]
                  ELSE SplitFrom(kb, end + Width(encoding), number_width, encoding,
                           Append(acc, <<Unpack(temp),
                               KeyText(Slice(kb, start + number_width, end), encoding)>>))

SplitKeyBlock(kb, number_width, encoding) ==
    SplitFrom(kb, 0, number_width, encoding, <<>>)

-----------------------------------------------------------------------------
(* _split_key_block statement by statement (SpecSplit).                    *)

\* The test of the outer while: the next position in the code.
SplitLoop(start) == IF start < Len(key_block) THEN "split_body" ELSE "split_return"

\* The test of the inner while.
ScanLoop(j) == IF j < Len(key_block) THEN "split_scan" ELSE "split_emit"

SplitEnter ==
    /\ pc = "split_enter"
    /\ split_list' = <<>>
    /\ key_start_index' = 0
    /\ pc' = SplitLoop(0)
    /\ UNCHANGED <<error, input, fileVars, headerVars, keysVars, blockVars,
                   key_id, i, key_end_index>>

\* Lines 224-237: the id is unpacked, the scan is set up.
SplitBody ==
    /\ pc = "split_body"
    /\ LET temp == Slice(key_block, key_start_index, key_start_index + _number_width)
       IN  IF Len(temp) # _number_width
           THEN /\ pc' = "error"
                /\ error' = "struct.error"
                /\ UNCHANGED <<key_id, i, key_end_index>>
           ELSE /\ key_id' = Unpack(temp)
                /\ i' = ScanStart(key_start_index, _number_width)
                /\ key_end_index' = 0
                /\ pc' = ScanLoop(i')
                /\ UNCHANGED error
    /\ UNCHANGED <<input, fileVars, headerVars, keysVars, blockVars,
                   key_start_index, split_list>>

\* Lines 239-242: one turn of the inner while.
SplitScan ==
    /\ pc = "split_scan"
    /\ IF Slice(key_block, i, i + Width(_encoding)) = Delimiter(_encoding)
       THEN /\ key_end_index' = i
            /\ pc' = "split_emit"
            /\ UNCHANGED i
       ELSE /\ i' = i + Width(_encoding)
            /\ pc' = ScanLoop(i')
            /\ UNCHANGED key_end_index
    /\ UNCHANGED <<error, input, fileVars, headerVars, keysVars, blockVars,
                   key_start_index, key_id, split_list>>

\* Lines 243-247, then the test of the outer while.
SplitEmit ==
    /\ pc = "split_emit"
    /\ IF key_end_index # 0
       THEN /\ split_list' = Append(split_list,
                   <<key_id, KeyText(Slice(key_block, key_start_index + _number_width,
                                           key_end_index), _encoding)>>)
            /\ key_start_index' = key_end_index + Width(_encoding)
            /\ pc' = SplitLoop(key_start_index')
       ELSE /\ pc' = SplitLoop(key_start_index)
            /\ UNCHANGED <<split_list, key_start_index>>
    /\ UNCHANGED <<error, input, fileVars, headerVars, keysVars, blockVars,
                   key_id, i, key_end_index>>

NextSplit == SplitEnter \/ SplitBody \/ SplitScan \/ SplitEmit

-----------------------------------------------------------------------------
(* Values of the variables a specification does not use.                   *)

PyInt(n) == [t |-> "int", v |-> n]
PyStr(x) == [t |-> "str", v |-> x]

EmptyTags ==
    [names |-> {},
     value |-> [GeneratedByEngineVersion |-> "", Encoding |-> "", encrypted |-> "",
                Stylesheet |-> <<>>]]

NoFile == [header_bytes_size |-> 0, adler_ok |-> TRUE, tags |-> EmptyTags, body |-> <<>>]

\* The header a file of the given number width and encoding leaves behind.
HeaderParsed(number_width, encoding) ==
    /\ _tag_dict = EmptyTags
    /\ _stylesheet = <<>>
    /\ _encoding = encoding
    /\ _encrypted = PyInt(0)
    /\ _version = IF number_width = 4 THEN 12 ELSE 20
    /\ _number_width = number_width
    /\ _key_block_offset = 0

KeysIdle ==
    /\ block = <<>>
    /\ number_of_key_blocks = 0
    /\ _number_of_entries = 0
    /\ key_block_info_compressed_size = 0
    /\ key_block_size = 0
    /\ key_block_info_list = <<>>

SplitIdle ==
    /\ key_start_index = 0
    /\ key_id = 0
    /\ i = 0
    /\ key_end_index = 0
    /\ split_list = <<>>

-----------------------------------------------------------------------------
(* Inputs: key blocks built from entries.                                  *)

MaxEntries == 2

NumberWidths == {4, 8}
Encodings == {"UTF-8", "UTF-16"}

Zeros(n) == [k \in 1..n |-> 0]

\* Id fields: zero bytes before, after and between the others.
IdFields(number_width) ==
    {Zeros(number_width - 3) \o low : low \in {<<0, 0, 1>>, <<2, 0, 0>>, <<0, 0, 0>>}}

\* Raw texts of whole delimiter-width units, none the delimiter: plain, with
\* whitespace at an end, with a byte or unit the decoder drops, and (UTF-16)
\* with two zero bytes that straddle two units.
Texts(encoding) ==
    IF encoding = "UTF-16"
    THEN {<<>>, <<65, 0>>, <<32, 0, 65, 0>>, <<65, 0, 0, 65>>, <<0, 216>>}
    ELSE {<<>>, <<65>>, <<32, 65>>, <<65, 255>>}

Entries(number_width, encoding) ==
    [id : IdFields(number_width), text : Texts(encoding)]

EntrySeqs(number_width, encoding) ==
    UNION {[1..n -> Entries(number_width, encoding)] : n \in 0..MaxEntries}

EntryBytes(e, encoding) == e.id \o e.text \o Delimiter(encoding)

RECURSIVE EntriesBytes(_, _)
EntriesBytes(es, encoding) ==
    IF es = <<>> THEN <<>>
    ELSE EntryBytes(Head(es), encoding) \o EntriesBytes(Tail(es), encoding)

\* What may follow the last well-formed entry: nothing; fewer bytes than an
\* id field; an id field and a text with no delimiter after it.
Tails(number_width, encoding) ==
    {<<>>, <<7>>}
    \cup {Zeros(number_width - 1) \o <<3>> \o t :
            t \in IF encoding = "UTF-16" THEN {<<>>, <<65, 0>>, <<65, 0, 0>>}
                                         ELSE {<<>>, <<65>>}}

InitSplit ==
    \E nw \in NumberWidths, enc \in Encodings :
      \E es \in EntrySeqs(nw, enc), tl \in Tails(nw, enc) :
        /\ pc = "split_enter"
        /\ error = ""
        /\ input = [entries |-> es, tail |-> tl]
        /\ mdx = NoFile
        /\ tell = 0
        /\ HeaderParsed(nw, enc)
        /\ KeysIdle
        /\ key_block_compressed = <<>>
        /\ key_list = <<>>
        /\ key_offset = 0
        /\ block_index = 0
        /\ key_block = EntriesBytes(es, enc) \o tl
        /\ SplitIdle

SpecSplit == InitSplit /\ [][NextSplit]_vars

-----------------------------------------------------------------------------
(* Properties of _split_key_block (SpecSplit).                             *)

\* The input is n well-formed entries and nothing else.
WellFormed == input.tail = <<>>

\* The inner scan has reached the end of the block without finding a
\* delimiter.
ScanExhausted == pc = "split_emit" /\ key_end_index = 0

\* The statement-by-statement model and SplitKeyBlock describe the same
\* function: a return gives SplitKeyBlock's list, struct.error is raised
\* where SplitKeyBlock says so, and an exhausted scan is SplitKeyBlock's hang.
SplitAgrees ==
    LET r == SplitKeyBlock(key_block, _number_width, _encoding)
    IN  /\ pc = "split_return" => r.status = "ok" /\ r.list = split_list
        /\ pc = "error" => r.status = "struct.error" /\ r.list = split_list
        /\ ScanExhausted => r.status = "hang" /\ r.list = split_list

\* The pairs the entries of the input stand for: the id field as a big-endian
\* number, the text transcoded to UTF-8.
EntryPairs(trim) ==
    [k \in 1..Len(input.entries) |->
        <<BigEndian(input.entries[k].id),
          IF trim THEN Strip(EncodeUtf8(Decode(input.entries[k].text, _encoding)))
                  ELSE EncodeUtf8(Decode(input.entries[k].text, _encoding))>>]

\* C2, as amended: on a block of n well-formed entries _split_key_block
\* neither raises nor runs off the end of the block in a scan, and it returns
\* exactly n pairs, in the order of the entries: each id is its entry's id
\* field read as a number_width-wide big-endian number (zero bytes in it are
\* no delimiter, whatever the encoding), each text is its entry's text in
\* UTF-8 with the whitespace at both ends removed.
C2_SplitReturnsEntriesTrimmed ==
    WellFormed =>
        /\ pc # "error"
        /\ ~ScanExhausted
        /\ pc = "split_return" => split_list = EntryPairs(TRUE)

\* C2, witness: a UTF-16 block with 8-byte ids has been split into its two
\* entries; the first id has zero bytes after a non-zero one, the first text
\* has two zero bytes that straddle two units, the second text is trimmed.
C2_Witness ==
    /\ pc = "split_return"
    /\ WellFormed
    /\ _encoding = "UTF-16"
    /\ _number_width = 8
    /\ Len(input.entries) = 2
    /\ input.entries[1] = [id |-> <<0, 0, 0, 0, 0, 2, 0, 0>>, text |-> <<65, 0, 0, 65>>]
    /\ input.entries[2].text = <<32, 0, 65, 0>>
    /\ split_list = <<<<131072, <<65, 228, 132, 128>>>>, <<BigEndian(input.entries[2].id), <<65>>>>>>

\* C2, as stated: the texts returned are those of the entries (untrimmed).
C2_Original ==
    (WellFormed /\ pc = "split_return") => split_list = EntryPairs(FALSE)

\* C5, as stated: when the scan after the last id field reaches the end of
\* the block without a delimiter, the dangling entry is not emitted and the
\* function returns the entries before it.
C5_Original ==
    [][ScanExhausted => (pc' = "split_return" /\ split_list' = split_list)]_vars

\* C5, witness of the case: a scan has run off the end of a block whose last
\* entry has no terminator, after one complete entry was emitted.
C5_Witness ==
    ScanExhausted /\ Len(split_list) = 1 /\ Len(input.tail) > _number_width

-----------------------------------------------------------------------------
(* __init__, _read_mdx_header and the start of _read_mdx_keys (SpecHeader). *)
(* The header text is given as the attributes that re.findall and          *)
(* html.unescape make of it: the names present and their values, the       *)
(* Stylesheet value as a string of characters.                             *)

\* x != y on Python values: an int and a str are never equal.
PyNotEqual(x, y) == IF x.t # y.t THEN TRUE ELSE x.v # y.v

\* str.split(): the maximal runs of characters that are not whitespace.
RECURSIVE SplitWords(_, _)
SplitWords(chars, word) ==
    IF chars = <<>> THEN (IF word = <<>> THEN <<>> ELSE <<word>>)
    ELSE IF Head(chars) = " "
         THEN (IF word = <<>> THEN <<>> ELSE <<word>>) \o SplitWords(Tail(chars), <<>>)
         ELSE SplitWords(Tail(chars), Append(word, Head(chars)))

StrSplit(chars) == SplitWords(chars, <<>>)

\* Lines 113-114 from row on: self._stylesheet[lines[row]] = lines[row+1:row+3]
\* for row = 0, 3, 6, ...; a later assignment to a key replaces an earlier one.
RECURSIVE StylesheetFrom(_, _, _)
StylesheetFrom(lines, row, sheet) ==
    IF row >= Len(lines) THEN sheet
    ELSE StylesheetFrom(lines, row + 3,
             (lines[row + 1] :> Slice(lines, row + 1, row + 3)) @@ sheet)

\* float(): the version strings of the model and their values in tenths.
Float(str) == CASE str = "1.2" -> 12 [] str = "2.0" -> 20 [] str = "2.1" -> 21

Has(tags, name) == name \in tags.names

\* The position just past the header: length field, header, checksum.
HeaderEnd == 4 + mdx.header_bytes_size + 4

\* _read_mdx_header, lines 50-123.
ReadMdxHeader ==
    /\ pc = "read_header"
    /\ tell' = HeaderEnd
    /\ IF ~mdx.adler_ok
       THEN \* line 58
            /\ pc' = "error"
            /\ error' = "AssertionError"
            /\ UNCHANGED headerVars
       ELSE /\ _key_block_offset' = HeaderEnd
            /\ _tag_dict' = mdx.tags
            /\ _encoding' = IF Has(mdx.tags, "Encoding") THEN mdx.tags.value.Encoding
                                                         ELSE "UTF-8"
            /\ _encrypted' = IF Has(mdx.tags, "encrypted")
                             THEN PyStr(mdx.tags.value.encrypted)
                             ELSE PyInt(0)
            /\ _stylesheet' = IF Has(mdx.tags, "Stylesheet")
                              THEN StylesheetFrom(StrSplit(mdx.tags.value.Stylesheet),
                                                  0, _stylesheet)
                              ELSE _stylesheet
            /\ IF ~Has(mdx.tags, "GeneratedByEngineVersion")
               THEN \* line 117
                    /\ pc' = "error"
                    /\ error' = "KeyError"
                    /\ UNCHANGED <<_version, _number_width>>
               ELSE /\ _version' = Float(mdx.tags.value.GeneratedByEngineVersion)
                    /\ _number_width' = IF _version' < 20 THEN 4 ELSE 8
                    /\ pc' = "read_keys"
                    /\ UNCHANGED error
    /\ UNCHANGED <<input, mdx, keysVars, blockVars, splitVars>>

\* The size of the key-index field block, lines 129-132.
NumberBytes == IF _version < 20 THEN _number_width * 4 ELSE _number_width * 5

\* _read_mdx_keys, lines 126-134: seek to the key index, read the field block.
ReadFieldBlock ==
    /\ pc = "read_keys"
    /\ block' = Slice(mdx.body, 0, NumberBytes)
    /\ tell' = _key_block_offset + Len(block')
    /\ pc' = "check_encrypted"
    /\ UNCHANGED <<error, input, mdx, headerVars, number_of_key_blocks,
                   _number_of_entries, key_block_info_compressed_size, key_block_size,
                   key_block_info_list, blockVars, splitVars>>

\* The test of line 137.
IsEncrypted == PyNotEqual(_encrypted, PyInt(0))

\* _read_mdx_keys, lines 137-140.
CheckEncrypted ==
    /\ pc = "check_encrypted"
    /\ IF IsEncrypted
       THEN pc' = "error" /\ error' = "NotImplementedError"
       ELSE pc' = "parse_index" /\ UNCHANGED error
    /\ UNCHANGED <<input, fileVars, headerVars, keysVars, blockVars, splitVars>>

NextHeader == ReadMdxHeader \/ ReadFieldBlock \/ CheckEncrypted

MaxStylesheetLen == 5

VersionStrings == {"1.2", "2.0", "2.1"}
EncryptedStrings == {"0", "1", "2", "3"}
StylesheetChars == {" ", "1", "b"}
StylesheetStrings == UNION {[1..n -> StylesheetChars] : n \in 0..MaxStylesheetLen}

\* The files of SpecHeader: any subset of the four attributes, a header
\* checksum that matches or not, and after the header nothing or a key index.
HeaderFile(ok, names, ver, enc, flag, sheet, body) ==
    [header_bytes_size |-> 64,
     adler_ok |-> ok,
     tags |-> [names |-> names,
               value |-> [GeneratedByEngineVersion |-> ver, Encoding |-> enc,
                          encrypted |-> flag, Stylesheet |-> sheet]],
     body |-> body]

TagNames == {"GeneratedByEngineVersion", "Encoding", "encrypted", "Stylesheet"}

\* A file in which the value of an absent attribute is the default of its set.
Canonical(f) ==
    /\ Has(f.tags, "GeneratedByEngineVersion") \/ f.tags.value.GeneratedByEngineVersion = "1.2"
    /\ Has(f.tags, "encrypted") \/ f.tags.value.encrypted = "0"
    /\ Has(f.tags, "Stylesheet") \/ f.tags.value.Stylesheet = <<>>

\* __init__, lines 22-29.
InitHeader ==
    \E ok \in BOOLEAN, names \in SUBSET TagNames, ver \in VersionStrings,
       enc \in {"UTF-16"}, flag \in EncryptedStrings, sheet \in StylesheetStrings,
       body \in {<<>>, Zeros(64)} :
      LET f == HeaderFile(ok, names, ver, enc, flag, sheet, body) IN
        /\ Canonical(f)
        /\ mdx = f
        /\ input = f.tags
        /\ pc = "read_header"
        /\ error = ""
        /\ tell = 0
        /\ _tag_dict = EmptyTags
        /\ _stylesheet = <<>>
        /\ _encoding = "None"
        /\ _encrypted = PyInt(0)
        /\ _version = 0
        /\ _number_width = 0
        /\ _key_block_offset = 0
        /\ KeysIdle
        /\ key_block_compressed = <<>>
        /\ key_list = <<>>
        /\ key_offset = 0
        /\ block_index = 0
        /\ key_block = <<>>
        /\ SplitIdle

SpecHeader == InitHeader /\ [][NextHeader]_vars

-----------------------------------------------------------------------------
(* Properties of the header and the encryption check (SpecHeader).         *)

\* The integer value of the file's encrypted flag, 0 when the header has no
\* encrypted attribute.
EncryptedFlag ==
    IF Has(mdx.tags, "encrypted")
    THEN CASE mdx.tags.value.encrypted = "0" -> 0
           [] mdx.tags.value.encrypted = "1" -> 1
           [] mdx.tags.value.encrypted = "2" -> 2
           [] mdx.tags.value.encrypted = "3" -> 3
    ELSE 0

Unsupported == pc = "error" /\ error = "NotImplementedError"

\* C1, as stated: with an encrypted flag of 1, 2 or 3 the decode never gets
\* past the encryption check, and when it fails there no byte past the
\* header has been read.
C1_Original ==
    EncryptedFlag # 0 =>
        /\ pc # "parse_index"
        /\ Unsupported => tell <= HeaderEnd

\* C1, witness of the case: a file with encrypted="1" and a key index after
\* its header has been rejected as unsupported.
C1_Witness ==
    /\ Unsupported
    /\ EncryptedFlag = 1
    /\ mdx.body # <<>>

\* C8, as stated: a header without an encrypted attribute and one with
\* encrypted="0" both pass the encryption check, and the unsupported-feature
\* error is raised if and only if the flag's integer value is not 0.
C8_Original ==
    /\ Unsupported => EncryptedFlag # 0
    /\ pc = "parse_index" => EncryptedFlag = 0

\* C8, witness of the case: a header with no encrypted attribute has passed
\* the check.
C8_Witness ==
    /\ pc = "parse_index"
    /\ ~Has(mdx.tags, "encrypted")

\* The tokens of the Stylesheet attribute of the file.
StylesheetTokens == StrSplit(mdx.tags.value.Stylesheet)

\* C10, as stated: once header parsing has succeeded every value of the
\* stylesheet mapping has exactly two elements, and a Stylesheet attribute
\* whose token count is no multiple of 3 has been rejected.
C10_Original ==
    pc \in {"read_keys", "check_encrypted", "parse_index"} =>
        /\ \A k \in DOMAIN _stylesheet : Len(_stylesheet[k]) = 2
        /\ Has(mdx.tags, "Stylesheet") => Len(StylesheetTokens) % 3 = 0

\* C10, witness of the case: the header was parsed with a Stylesheet of one
\* full group of three tokens.
C10_Witness ==
    /\ pc = "read_keys"
    /\ Has(mdx.tags, "Stylesheet")
    /\ StylesheetTokens = <<<<"1">>, <<"b">>, <<"b">>>>
    /\ _stylesheet = (<<"1">> :> <<<<"b">>, <<"b">>>>)

-----------------------------------------------------------------------------
(* _decode_key_block (SpecBlocks, SpecKeys).                               *)

\* zlib.adler32(bytes) & 0xffffffff: the sums a (1 plus the bytes) and b (the
\* running values of a), modulo 65521. The sums of a string are put together
\* from those of its halves: the bytes of the right half add to a, and b
\* gains, for each byte of the right half, what a was after the left half.
RECURSIVE AdlerSums(_)
AdlerSums(bytes) ==
    IF bytes = <<>> THEN <<1, 0>>
    ELSE IF Len(bytes) = 1 THEN <<(1 + bytes[1]) % 65521, (1 + bytes[1]) % 65521>>
    ELSE LET half == Len(bytes) \div 2
             left == AdlerSums(SubSeq(bytes, 1, half))
             right == AdlerSums(SubSeq(bytes, half + 1, Len(bytes)))
             after == left[1] + 65521 - 1
         IN  <<(after + right[1]) % 65521,
               (left[2] + right[2] + (Len(bytes) - half) * after) % 65521>>

Adler32(bytes) == AdlerSums(bytes)[2] * 65536 + AdlerSums(bytes)[1]

\* The compression-type tags of lines 188-192.
TagStored  == <<0, 0, 0, 0>>
TagLzo     == <<1, 0, 0, 0>>
TagDeflate == <<2, 0, 0, 0>>

\* zlib.decompress and lzo.decompress are library functions. In the model a
\* well-formed stream is one marker byte (0x78 for zlib, 0xF0 for lzo)
\* followed by the data, stored; every other string is rejected (zlib.error,
\* lzo.error).
ZlibMarker == 120
LzoMarker  == 240

Inflate(payload) ==
    IF payload # <<>> /\ Head(payload) = ZlibMarker
    THEN [ok |-> TRUE, data |-> Tail(payload)]
    ELSE [ok |-> FALSE, data |-> <<>>]

LzoDecompress(payload) ==
    IF payload # <<>> /\ Head(payload) = LzoMarker
    THEN [ok |-> TRUE, data |-> Tail(payload)]
    ELSE [ok |-> FALSE, data |-> <<>>]

\* Lines 188-198: what the dispatch on the tag makes of key_block, given the
\* value stale that key_block has from the iteration before. raised is the
\* exception that leaves the function, "" when none does: the except clause
\* of line 195 prints and goes on, with key_block as it was.
Decompress(tag, payload, stale) ==
    IF tag = TagStored THEN [raised |-> "", key_block |-> payload]
    ELSE IF tag = TagLzo
         THEN IF LzoDecompress(payload).ok
              THEN [raised |-> "", key_block |-> LzoDecompress(payload).data]
              ELSE [raised |-> "lzo.error", key_block |-> stale]
    ELSE IF tag = TagDeflate
         THEN IF Inflate(payload).ok
              THEN [raised |-> "", key_block |-> Inflate(payload).data]
              ELSE [raised |-> "", key_block |-> stale]
    ELSE [raised |-> "NotImplementedError", key_block |-> stale]

Raise(name) == pc' = "error" /\ error' = name

\* One iteration of the for loop, lines 179-204, for the pair at block_index.
BlockIter ==
    /\ pc = "block_loop"
    /\ block_index < Len(key_block_info_list)
    /\ LET compressed_size == key_block_info_list[block_index + 1][1]
           start == key_offset
           end == start + compressed_size
           key_block_type == Slice(key_block_compressed, start, start + 4)
           checksum == Slice(key_block_compressed, start + 4, start + 8)
           d == Decompress(key_block_type, Slice(key_block_compressed, start + 8, end),
                           key_block)
           split == SplitKeyBlock(d.key_block, _number_width, _encoding)
       IN  IF Len(checksum) # 4
           THEN \* line 186
                Raise("struct.error") /\ UNCHANGED blockVars
           ELSE IF d.raised # ""
           THEN \* lines 191, 198
                Raise(d.raised) /\ UNCHANGED blockVars
           ELSE /\ key_block' = d.key_block
                /\ IF split.status = "hang"
                   THEN \* line 200: the call does not return
                        /\ pc' = "hang"
                        /\ UNCHANGED <<error, key_list, key_offset, block_index>>
                   ELSE IF split.status = "struct.error"
                   THEN /\ Raise("struct.error")
                        /\ UNCHANGED <<key_list, key_offset, block_index>>
                   ELSE /\ key_list' = key_list \o split.list
                        /\ IF Unpack(checksum) # Adler32(d.key_block)
                           THEN \* line 202
                                /\ Raise("AssertionError")
                                /\ UNCHANGED <<key_offset, block_index>>
                           ELSE /\ key_offset' = key_offset + compressed_size
                                /\ block_index' = block_index + 1
                                /\ UNCHANGED <<pc, error>>
                /\ UNCHANGED key_block_compressed
    /\ UNCHANGED <<input, fileVars, headerVars, keysVars, splitVars>>

\* The for loop is exhausted: return key_list, line 206.
BlockReturn ==
    /\ pc = "block_loop"
    /\ block_index = Len(key_block_info_list)
    /\ pc' = "block_return"
    /\ UNCHANGED <<error, input, fileVars, headerVars, keysVars, blockVars, splitVars>>

NextBlocks == BlockIter \/ BlockReturn

-----------------------------------------------------------------------------
(* Inputs of _decode_key_block (SpecBlocks): key block data and a          *)
(* KeyBlockInfo sequence, built from up to MaxBlocks blocks.               *)

MaxBlocks == 2

\* The width-byte big-endian form of n (struct.pack).
RECURSIVE Pack(_, _)
Pack(n, width) ==
    IF width = 0 THEN <<>> ELSE Pack(n \div 256, width - 1) \o <<n % 256>>

\* One well-formed entry: id 1, the text "A".
EntryA(number_width, encoding) ==
    Pack(1, number_width)
    \o (IF encoding = "UTF-16" THEN <<65, 0>> ELSE <<65>>)
    \o Delimiter(encoding)

\* Decompressed blocks: empty; one entry; one entry, then an entry whose text
\* has no terminator.
Contents(number_width, encoding) ==
    {<<>>,
     EntryA(number_width, encoding),
     EntryA(number_width, encoding) \o Pack(2, number_width) \o <<66, 66>>}

\* A payload no decompressor accepts.
Rejected == <<9, 9>>

TagUnknown == <<3, 0, 0, 0>>

\* The payloads a block of the given tag may carry.
Payloads(tag, number_width, encoding) ==
    IF tag = TagStored THEN Contents(number_width, encoding)
    ELSE IF tag = TagLzo
         THEN {<<LzoMarker>> \o c : c \in Contents(number_width, encoding)} \cup {Rejected}
    ELSE IF tag = TagDeflate
         THEN {<<ZlibMarker>> \o c : c \in Contents(number_width, encoding)} \cup {Rejected}
    ELSE {EntryA(number_width, encoding)}

\* The checksums a block may store: that of each decompressed block of the
\* model (so: its own, or that of the block before it), and one of none.
Checksums(number_width, encoding) ==
    {Adler32(c) : c \in Contents(number_width, encoding)} \cup {0}

\* The bytes of the blocks: tag, checksum, payload.
BlockSet(number_width, encoding) ==
    UNION {{tag \o Pack(sum, 4) \o p :
                sum \in Checksums(number_width, encoding),
                p \in Payloads(tag, number_width, encoding)} :
           tag \in {TagStored, TagLzo, TagDeflate, TagUnknown}}

BlockSeqs(number_width, encoding) ==
    UNION {[1..n -> BlockSet(number_width, encoding)] : n \in 0..MaxBlocks}

\* The KeyBlockInfo sequence that describes the blocks bs: the compressed
\* size of each pair is the length of its block, the decompressed size that
\* of its payload as stored.
InfoFor(bs) == [k \in 1..Len(bs) |-> <<Len(bs[k]), Len(bs[k]) - 8>>]

InitBlocks ==
    \E nw \in NumberWidths, enc \in Encodings :
      \E bs \in BlockSeqs(nw, enc) :
          LET info == InfoFor(bs) IN
            /\ pc = "block_loop"
            /\ error = ""
            /\ input = bs
            /\ mdx = NoFile
            /\ tell = 0
            /\ HeaderParsed(nw, enc)
            /\ block = <<>>
            /\ number_of_key_blocks = Len(bs)
            /\ _number_of_entries = 0
            /\ key_block_info_compressed_size = 0
            /\ key_block_size = Len(Concat(bs))
            /\ key_block_info_list = info
            /\ key_block_compressed = Concat(bs)
            /\ key_list = <<>>
            /\ key_offset = 0
            /\ block_index = 0
            /\ key_block = <<>>
            /\ SplitIdle

SpecBlocks == InitBlocks /\ [][NextBlocks]_vars

-----------------------------------------------------------------------------
(* Properties of _decode_key_block (SpecBlocks). The blocks are described  *)
(* from the arguments, as the format lays them out: block k is the slice   *)
(* of compressed_size bytes that starts where block k-1 ends.              *)

\* The sum of the compressed sizes of the first k pairs.
RECURSIVE SumSizes(_, _)
SumSizes(info, k) == IF k = 0 THEN 0 ELSE SumSizes(info, k - 1) + info[k][1]

BlockSlice(k) ==
    Slice(key_block_compressed, SumSizes(key_block_info_list, k - 1),
          SumSizes(key_block_info_list, k))

BlockTag(k)      == Slice(BlockSlice(k), 0, 4)
BlockChecksum(k) == Slice(BlockSlice(k), 4, 8)
BlockPayload(k)  == SliceFrom(BlockSlice(k), 8)

\* The decompressed bytes of block k, when its tag is known and its payload
\* decompresses.
BlockData(k) ==
    IF BlockTag(k) = TagStored THEN [ok |-> TRUE, data |-> BlockPayload(k)]
    ELSE IF BlockTag(k) = TagLzo THEN LzoDecompress(BlockPayload(k))
    ELSE IF BlockTag(k) = TagDeflate THEN Inflate(BlockPayload(k))
    ELSE [ok |-> FALSE, data |-> <<>>]

\* The entries of block k: those its decompressed bytes split into.
BlockEntries(k) ==
    IF BlockData(k).ok
    THEN SplitKeyBlock(BlockData(k).data, _number_width, _encoding).list
    ELSE <<>>

RECURSIVE EntriesUpTo(_)
EntriesUpTo(k) == IF k = 0 THEN <<>> ELSE EntriesUpTo(k - 1) \o BlockEntries(k)

\* The iteration for block k has run: to its end, or to where it raised or
\* stopped returning.
Taken(k) ==
    \/ block_index >= k
    \/ block_index = k - 1 /\ pc \in {"error", "hang"}

\* The checksum stored in block k is not the Adler-32 of its decompressed bytes.
Mismatch(k) ==
    /\ BlockData(k).ok
    /\ Len(BlockChecksum(k)) = 4
    /\ Unpack(BlockChecksum(k)) # Adler32(BlockData(k).data)

\* Block k is a DEFLATE block whose payload the decompressor rejects.
InflateRejects(k) ==
    /\ BlockTag(k) = TagDeflate
    /\ ~Inflate(BlockPayload(k)).ok

Blocks == 1..Len(key_block_info_list)

\* C3, as stated: a block whose stored checksum differs from the Adler-32 of
\* its decompressed bytes ends _decode_key_block in the integrity error,
\* whatever those bytes are; no key list is returned and the run ends.
C3_Original ==
    \A k \in Blocks :
        (Taken(k) /\ Mismatch(k)) =>
            /\ pc = "error"
            /\ error = "AssertionError"
            /\ block_index = k - 1

\* C3, witness of the case: the second block's checksum did not match and
\* the assert of line 202 raised.
C3_Witness ==
    /\ pc = "error"
    /\ error = "AssertionError"
    /\ block_index = 1
    /\ Len(key_block_info_list) = 2
    /\ Mismatch(2)

\* C6, as stated: a DEFLATE payload the decompressor rejects ends
\* _decode_key_block in a fatal error at that block: the loop does not go on,
\* no entries are appended for the block, no key list is returned.
C6_Original ==
    \A k \in Blocks :
        (Taken(k) /\ InflateRejects(k)) =>
            /\ pc = "error"
            /\ block_index = k - 1
            /\ key_list = EntriesUpTo(k - 1)

\* C6, witness of the case: the payload of the second block was rejected,
\* and the key list returned holds the entry of the first block twice.
C6_Witness ==
    /\ pc = "block_return"
    /\ Len(key_block_info_list) = 2
    /\ InflateRejects(2)
    /\ Len(BlockEntries(1)) = 1
    /\ key_list = BlockEntries(1) \o BlockEntries(1)

\* The running offset at the head of the loop is the sum of the compressed
\* sizes of the blocks taken.
OffsetIsSum ==
    pc = "block_loop" => key_offset = SumSizes(key_block_info_list, block_index)

\* C9, as stated: the running offset at the start of the iteration for block
\* k is the sum of the compressed sizes of the blocks before it, and the key
\* list returned is the concatenation of each block's entries, in the order
\* of the KeyBlockInfo sequence.
C9_Original ==
    /\ OffsetIsSum
    /\ pc = "block_return" => key_list = EntriesUpTo(Len(key_block_info_list))

\* C9, witness of the case: two blocks of one entry each were decoded and
\* their entries returned in order.
C9_Witness ==
    /\ pc = "block_return"
    /\ Len(key_block_info_list) = 2
    /\ key_offset = Len(key_block_compressed)
    /\ Len(BlockEntries(1)) = 1
    /\ Len(BlockEntries(2)) = 1
    /\ key_list = BlockEntries(1) \o BlockEntries(2)

-----------------------------------------------------------------------------
(* _read_mdx_keys past the encryption check, with                          *)
(* _decode_key_block_info (SpecKeys).                                      *)

\* mdict_file.read(n): the bytes of the file from the position tell on.
FileRead(n) == Slice(mdx.body, tell - HeaderEnd, tell - HeaderEnd + n)

\* _read_number, line 40: the k-th number of the field block, k from 0.
Field(k) == Slice(block, k * _number_width, (k + 1) * _number_width)

\* Where key_block_info_compressed_size stands in the field block: from
\* version 2.0 on the decompressed size stands before it (lines 147-150).
InfoSizeField == IF _version >= 20 THEN 3 ELSE 2

\* _read_mdx_keys, lines 140-157: the numbers of the key index and, from
\* version 2.0 on, the checksum of the field block.
ParseKeyIndex ==
    /\ pc = "parse_index"
    /\ LET Readable(k) == Len(Field(k)) = _number_width
           checksum == FileRead(4)
       IN  /\ _number_of_entries' = IF Readable(0) /\ Readable(1)
                                    THEN Unpack(Field(1))
                                    ELSE _number_of_entries
           /\ IF \E k \in 0..(InfoSizeField + 1) : ~Readable(k)
              THEN /\ Raise("struct.error")
                   /\ UNCHANGED <<tell, number_of_key_blocks,
                                  key_block_info_compressed_size, key_block_size>>
              ELSE /\ number_of_key_blocks' = Unpack(Field(0))
                   /\ key_block_info_compressed_size' = Unpack(Field(InfoSizeField))
                   /\ key_block_size' = Unpack(Field(InfoSizeField + 1))
                   /\ IF _version >= 20
                      THEN /\ tell' = tell + Len(checksum)
                           /\ IF Len(checksum) # 4
                              THEN Raise("struct.error")
                              ELSE IF Unpack(checksum) # Adler32(block)
                              THEN \* line 157
                                   Raise("AssertionError")
                              ELSE pc' = "decode_info" /\ UNCHANGED error
                      ELSE /\ pc' = "decode_info"
                           /\ UNCHANGED <<error, tell>>
    /\ UNCHANGED <<input, mdx, headerVars, block, key_block_info_list, blockVars,
                   splitVars>>

\* The marker of a compressed key-block-info table, line 277.
InfoMarker == <<0, 0, 0, 2>>

\* Lines 276-283: the working buffer of _decode_key_block_info.
InfoBuffer(key_block_info_compressed) ==
    IF _version > 20
    THEN LET inflated == Inflate(SliceFrom(key_block_info_compressed, 8))
             checksum == Slice(key_block_info_compressed, 4, 8)
         IN  IF Slice(key_block_info_compressed, 0, 4) # InfoMarker
             THEN [raised |-> "AssertionError", data |-> <<>>]
             ELSE IF ~inflated.ok
             THEN [raised |-> "zlib.error", data |-> <<>>]
             ELSE IF Len(checksum) # 4
             THEN [raised |-> "struct.error", data |-> <<>>]
             ELSE IF Unpack(checksum) # Adler32(inflated.data)
             THEN [raised |-> "AssertionError", data |-> <<>>]
             ELSE [raised |-> "", data |-> inflated.data]
    ELSE [raised |-> "", data |-> key_block_info_compressed]

\* Lines 288-295.
ByteWidth == IF _version >= 20 THEN 2 ELSE 1
TextTerm  == IF _version >= 20 THEN 1 ELSE 0

\* Lines 308-311, 318-321: the bytes a text of the given size takes.
TextBytes(size) ==
    IF _encoding # "UTF-16" THEN size + TextTerm ELSE (size + TextTerm) * 2

\* The while loop of lines 299-335, from key_offset on: one record a turn.
RECURSIVE ParseInfo(_, _, _, _)
ParseInfo(key_block_info, key_offset_, number_of_entries, list) ==
    IF key_offset_ >= Len(key_block_info)
    THEN [raised |-> "", number_of_entries |-> number_of_entries, list |-> list]
    ELSE LET count == Slice(key_block_info, key_offset_, key_offset_ + _number_width)
             head_at == key_offset_ + _number_width
             text_head_size == Slice(key_block_info, head_at, head_at + ByteWidth)
             tail_at == head_at + ByteWidth + TextBytes(Unpack(text_head_size))
             text_tail_size == Slice(key_block_info, tail_at, tail_at + ByteWidth)
             sizes_at == tail_at + ByteWidth + TextBytes(Unpack(text_tail_size))
             key_block_compressed_size ==
                 Slice(key_block_info, sizes_at, sizes_at + _number_width)
             key_block_decompressed_size ==
                 Slice(key_block_info, sizes_at + _number_width,
                       sizes_at + 2 * _number_width)
         IN  IF \/ Len(count) # _number_width
                \/ Len(text_head_size) # ByteWidth
                \/ Len(text_tail_size) # ByteWidth
                \/ Len(key_block_compressed_size) # _number_width
                \/ Len(key_block_decompressed_size) # _number_width
             THEN [raised |-> "struct.error", number_of_entries |-> number_of_entries,
                   list |-> list]
             ELSE ParseInfo(key_block_info, sizes_at + 2 * _number_width,
                            number_of_entries + Unpack(count),
                            Append(list, <<Unpack(key_block_compressed_size),
                                           Unpack(key_block_decompressed_size)>>))

\* The assert of line 337 left out.
EntriesUnchecked(number_of_entries) == TRUE

\* The test of the assert of line 337.
EntriesMatch(number_of_entries) == number_of_entries = _number_of_entries

\* _decode_key_block_info, lines 251-338.
DecodeKeyBlockInfo(key_block_info_compressed) ==
    LET buffer == InfoBuffer(key_block_info_compressed)
        parsed == ParseInfo(buffer.data, 0, 0, <<>>)
    IN  IF buffer.raised # "" THEN [raised |-> buffer.raised, list |-> <<>>]
        ELSE IF parsed.raised # "" THEN [raised |-> parsed.raised, list |-> <<>>]
        ELSE IF ~EntriesMatch(parsed.number_of_entries)
        THEN [raised |-> "AssertionError", list |-> <<>>]
        ELSE [raised |-> "", list |-> parsed.list]

\* _read_mdx_keys, lines 159-160: read the table and decode it.
DecodeInfo ==
    /\ pc = "decode_info"
    /\ LET key_block_info == FileRead(key_block_info_compressed_size)
           decoded == DecodeKeyBlockInfo(key_block_info)
       IN  /\ tell' = tell + Len(key_block_info)
           /\ IF decoded.raised # ""
              THEN Raise(decoded.raised) /\ UNCHANGED key_block_info_list
              ELSE /\ key_block_info_list' = decoded.list
                   /\ pc' = "check_count"
                   /\ UNCHANGED error
    /\ UNCHANGED <<input, mdx, headerVars, block, number_of_key_blocks,
                   _number_of_entries, key_block_info_compressed_size, key_block_size,
                   blockVars, splitVars>>

\* _read_mdx_keys, line 161.
CheckBlockCount ==
    /\ pc = "check_count"
    /\ IF Len(key_block_info_list) # number_of_key_blocks
       THEN Raise("AssertionError")
       ELSE pc' = "read_blocks" /\ UNCHANGED error
    /\ UNCHANGED <<input, fileVars, headerVars, keysVars, blockVars, splitVars>>

\* _read_mdx_keys, lines 164-165, and the entry of _decode_key_block, lines
\* 175-177.
ReadKeyBlocks ==
    /\ pc = "read_blocks"
    /\ key_block_compressed' = FileRead(key_block_size)
    /\ tell' = tell + Len(key_block_compressed')
    /\ key_list' = <<>>
    /\ key_offset' = 0
    /\ block_index' = 0
    /\ pc' = "block_loop"
    /\ UNCHANGED <<error, input, mdx, headerVars, keysVars, key_block, splitVars>>

\* _read_mdx_keys, lines 167-169: the key list is returned.
KeysReturn ==
    /\ pc = "block_return"
    /\ pc' = "done"
    /\ UNCHANGED <<error, input, fileVars, headerVars, keysVars, blockVars, splitVars>>

NextKeys ==
    \/ ReadFieldBlock
    \/ CheckEncrypted
    \/ ParseKeyIndex
    \/ DecodeInfo
    \/ CheckBlockCount
    \/ ReadKeyBlocks
    \/ BlockIter
    \/ BlockReturn
    \/ KeysReturn

-----------------------------------------------------------------------------
(* Inputs of SpecKeys: files of up to MaxBlocks key blocks, written as the *)
(* format lays them out; then either the key index states a wrong number,  *)
(* or one byte of the key-block-info table is changed.                     *)

\* The key of the entries: one character, "!".
IndexKey(encoding) == IF encoding = "UTF-16" THEN <<33, 0>> ELSE <<33>>

IndexEntry(number_width, encoding) ==
    Pack(1, number_width) \o IndexKey(encoding) \o Delimiter(encoding)

\* The key blocks of a file: stored with one entry, stored with two,
\* deflated with one; each with its checksum.
KeyBlocks(number_width, encoding) ==
    LET one == IndexEntry(number_width, encoding)
        two == one \o one
    IN  {[bytes |-> TagStored \o Pack(Adler32(one), 4) \o one,
          entries |-> 1, size |-> Len(one)],
         [bytes |-> TagStored \o Pack(Adler32(two), 4) \o two,
          entries |-> 2, size |-> Len(two)],
         [bytes |-> TagDeflate \o Pack(Adler32(one), 4) \o <<ZlibMarker>> \o one,
          entries |-> 1, size |-> Len(one)]}

KeyBlockSeqs(number_width, encoding) ==
    UNION {[1..n -> KeyBlocks(number_width, encoding)] : n \in 0..MaxBlocks}

\* The bytes of one field of the table, each with the kind of its field and
\* its rank in the field (0 for the last byte, the lowest of a number).
Cells(kind, bytes) ==
    [k \in 1..Len(bytes) |-> [byte |-> bytes[k], kind |-> kind, rank |-> Len(bytes) - k]]

\* The record of the table for the block b: entry count, head text, tail
\* text (both the key of the block), compressed size, decompressed size.
InfoRecord(version, number_width, encoding, b) ==
    LET width == IF version >= 20 THEN 2 ELSE 1
        text == IndexKey(encoding)
                \o (IF version >= 20 THEN Delimiter(encoding) ELSE <<>>)
    IN  Cells("count", Pack(b.entries, number_width))
        \o Cells("length", Pack(1, width)) \o Cells("text", text)
        \o Cells("length", Pack(1, width)) \o Cells("text", text)
        \o Cells("compressed_size", Pack(Len(b.bytes), number_width))
        \o Cells("decompressed_size", Pack(b.size, number_width))

InfoCells(version, number_width, encoding, bs) ==
    Concat([k \in 1..Len(bs) |-> InfoRecord(version, number_width, encoding, bs[k])])

CellBytes(cells) == [k \in 1..Len(cells) |-> cells[k].byte]

\* The bytes of the table that are changed. The numbers read stay below
\* 2^31: of a number the four low bytes are changed; in a version 2.0 table
\* the length fields are left alone (past a changed length the 8-byte numbers
\* are read off their boundaries) and of a compressed size the last byte is
\* changed (a block that runs on into the next one has an 8-byte id read off
\* the tag and checksum of that one).
Changeable(version, cell) ==
    CASE cell.kind \in {"count", "decompressed_size"} -> cell.rank < 4
      [] cell.kind = "compressed_size" -> IF version = 20 THEN cell.rank = 0
                                                          ELSE cell.rank < 4
      [] cell.kind = "length" -> version # 20
      [] OTHER -> TRUE

NoChange == [at |-> 0, to |-> 0]

\* The single-byte changes: a byte of the table becomes one more or one less.
Changes(version, cells) ==
    UNION {{[at |-> k, to |-> to] :
                to \in {cells[k].byte + 1, cells[k].byte - 1} \cap (0..255)} :
           k \in {j \in 1..Len(cells) : Changeable(version, cells[j])}}

Changed(bytes, change) ==
    IF change.at = 0 THEN bytes ELSE [bytes EXCEPT ![change.at] = change.to]

\* The table as it stands in the file: from version 2.1 on behind the
\* marker, the checksum of the table as written, and compressed.
InfoRegion(version, table, change) ==
    IF version > 20
    THEN InfoMarker \o Pack(Adler32(table), 4) \o <<ZlibMarker>> \o Changed(table, change)
    ELSE Changed(table, change)

RECURSIVE SumEntries(_)
SumEntries(bs) == IF bs = <<>> THEN 0 ELSE Head(bs).entries + SumEntries(Tail(bs))

\* What a key index may state wrongly: one block too many, one entry too
\* many, a checksum of the field block that is one too high.
Lies == [blocks : {0, 1}, entries : {0, 1}, checksum : {0, 1}]
NoLie == [blocks |-> 0, entries |-> 0, checksum |-> 0]

\* The file after the header: key index, table, key blocks.
KeyFileBody(version, number_width, encoding, bs, change, lie) ==
    LET table == CellBytes(InfoCells(version, number_width, encoding, bs))
        region == InfoRegion(version, table, change)
        data == Concat([k \in 1..Len(bs) |-> bs[k].bytes])
        fields == Pack(Len(bs) + lie.blocks, number_width)
                  \o Pack(SumEntries(bs) + lie.entries, number_width)
                  \o (IF version >= 20 THEN Pack(Len(table), number_width) ELSE <<>>)
                  \o Pack(Len(region), number_width)
                  \o Pack(Len(data), number_width)
    IN  fields
        \o (IF version >= 20 THEN Pack(Adler32(fields) + lie.checksum, 4) ELSE <<>>)
        \o region
        \o data

\* The state _read_mdx_header leaves, lines 50-123, for an unencrypted file.
InitKeys ==
    \E ver \in VersionStrings, enc \in Encodings :
      LET version == Float(ver)
          number_width == IF version < 20 THEN 4 ELSE 8
      IN  \E bs \in KeyBlockSeqs(number_width, enc), lie \in Lies :
            \E change \in {NoChange}
                          \cup Changes(version, InfoCells(version, number_width, enc, bs)) :
              /\ change # NoChange => lie = NoLie
              /\ lie.checksum = 1 => version >= 20
              /\ input = [blocks |-> bs,
                          info |-> [k \in 1..Len(bs) |-> <<Len(bs[k].bytes), bs[k].size>>],
                          change |-> change,
                          lie |-> lie]
              /\ mdx = [header_bytes_size |-> 64,
                        adler_ok |-> TRUE,
                        tags |-> [names |-> {"GeneratedByEngineVersion", "Encoding"},
                                  value |-> [GeneratedByEngineVersion |-> ver,
                                             Encoding |-> enc, encrypted |-> "0",
                                             Stylesheet |-> <<>>]],
                        body |-> KeyFileBody(version, number_width, enc, bs, change, lie)]
              /\ pc = "read_keys"
              /\ error = ""
              /\ tell = HeaderEnd
              /\ _tag_dict = mdx.tags
              /\ _stylesheet = <<>>
              /\ _encoding = enc
              /\ _encrypted = PyInt(0)
              /\ _version = version
              /\ _number_width = number_width
              /\ _key_block_offset = HeaderEnd
              /\ KeysIdle
              /\ key_block_compressed = <<>>
              /\ key_list = <<>>
              /\ key_offset = 0
              /\ block_index = 0
              /\ key_block = <<>>
              /\ SplitIdle

SpecKeys == InitKeys /\ [][NextKeys]_vars

-----------------------------------------------------------------------------
(* Properties of _read_mdx_keys and _decode_key_block_info (SpecKeys).     *)

\* The bytes of the table in the file, as the key index gives their place.
InfoTable ==
    LET at == NumberBytes + (IF _version >= 20 THEN 4 ELSE 0)
    IN  Slice(mdx.body, at, at + key_block_info_compressed_size)

\* The table parses: its buffer is accepted and its records are complete.
TableParses ==
    /\ InfoBuffer(InfoTable).raised = ""
    /\ ParseInfo(InfoBuffer(InfoTable).data, 0, 0, <<>>).raised = ""

\* The records of the table and the sum of their entry counts.
TableRecords == ParseInfo(InfoBuffer(InfoTable).data, 0, 0, <<>>)

C7_Original ==
    input.change # NoChange =>
        ~(pc = "done" /\ key_block_info_list # input.info)

\* C7, witness of the case: a byte of the compressed table of a version 2.1
\* file was changed and the checksum of the table raised the integrity error.
C7_Witness ==
    /\ input.change # NoChange
    /\ _version = 21
    /\ pc = "error"
    /\ error = "AssertionError"
    /\ key_block_info_list = <<>>

====
